---- MODULE Spec2Model ----
(***************************************************************************)
(* A model of alive/transform.py: the Transform object (type constraints,  *)
(* cached type model, validation), the term-DAG utilities (get_insts,      *)
(* count_uses, constant_defs), the Formatter's naming state, the           *)
(* BinaryCnxp printer and the line-continuation renderer.                  *)
(*                                                                         *)
(* Terms are held in an arena: terms[i] is the i-th term, a record with    *)
(* its class (kind), its operand list (args, indices of earlier terms, so  *)
(* the graph is acyclic) and its user-given name.  Identity of a term is   *)
(* its index.                                                              *)
(***************************************************************************)
EXTENDS Integers, Sequences, FiniteSets, TLC

VARIABLES
  terms,      \* the term arena: Seq of [kind, args, name, ty]
  \* ---- term-DAG utilities
  op,         \* the last operation run ("none" initially)
  root,       \* the roots the operation was given, in call order
  insts,      \* the list get_insts returned
  uses,       \* the shared collections.Counter of count_uses
  expanded,   \* how often each term's operand list was walked by count_uses
  cdefs,      \* the terms constant_defs generated, in order
  \* ---- Formatter
  ids,        \* Formatter.ids: term -> assigned name
  names,      \* Formatter.names: the names issued
  fresh,      \* Formatter.fresh: the counter
  returned,   \* per term, the set of names its calls of name() returned
  recalled,   \* the terms name() was called on while they had a name
  \* ---- BinaryCnxp printer
  expr,       \* the expression, in prefix order: an operator code, or "." for a Literal
  prec,       \* the enclosing precedence format_doc was called with
  doc,        \* the document format_doc returned, as its flat token list
  \* ---- Formatted.write_to and text_events_line_continue
  wr_pc,      \* where write_to is: "start", "sending", "done" or "raised"
  it,         \* the generator: "none", "created", "suspended" (at yield) or "closed"
              \* (closed by close(), or finished by an exception that left it)
  gen,        \* the generator's locals: width, prefix, newline, suffix, fits, broken, hp_eol
  out,        \* the strings out() was passed and wrote, in order
  stack,      \* per open group, the counter its group-begin incremented
  pos,        \* the horizontal position the event stream has reached
  ev,         \* the event handled last
  nev,        \* the number of events the generator handled up to its next yield
  firstBreak, \* Len(out) when the first group was broken, -1 before
  eol_base,   \* the end-of-line budget of the current output line with
              \* nothing reserved for the suffix
  \* ---- Transform
  self_src,   \* Transform.src (0 before the Transform is constructed)
  self_tgt,   \* Transform.tgt
  self_pre,   \* Transform.pre (0 for None)
  _model,     \* Transform._model: NoModel while the attribute is not set, else the
              \* type model object [id, tc]
  tc_runs,    \* how often type_constraints() has been run
  calls,      \* how many methods of the Transform have been called
  ret,        \* the last call: [op, outcome, ...]
  used,       \* the ids of the type model objects the calls used
  \* ---- format_parts
  fp          \* the print session: [pc, fn, headers, src, tgt, srci, cdefs, heads,
              \* doc, text]; pc is "none" before the function fn is called, doc
              \* is what is left to send of the document it returned

dagVars == <<op, root, insts, uses, expanded, cdefs>>
fmtVars == <<ids, names, fresh, returned, recalled>>
prVars == <<expr, prec, doc>>
renVars == <<wr_pc, it, gen, out, stack, pos, ev, nev, firstBreak, eol_base>>
tyVars == <<self_src, self_tgt, self_pre, _model, tc_runs, calls, ret, used>>
partsVars == <<fp>>
vars == <<terms, dagVars, fmtVars, prVars, renVars, tyVars, partsVars>>

\* What the actions of each specification leave unchanged.
notDag == <<fmtVars, prVars, renVars, tyVars, partsVars>>
notFmt == <<dagVars, prVars, renVars, tyVars, partsVars>>
notPr == <<terms, dagVars, fmtVars, renVars, tyVars, partsVars>>
notRen == <<terms, dagVars, fmtVars, prVars, tyVars, partsVars>>
notTy == <<dagVars, fmtVars, prVars, renVars, partsVars>>
notParts == <<returned, recalled, dagVars, prVars, renVars, tyVars>>

(***************************************************************************)
(* Bounds of the model.                                                    *)
(***************************************************************************)
MaxTerms == 4        \* terms in the arena of the DAG specifications
MaxRoots == 2        \* roots one counter of count_uses is shared between
MaxNamed == 3        \* terms in the arena of the Formatter specification
MaxOps == 2          \* BinaryCnxp terms in a printed expression
MaxEvents == 5       \* events sent to the renderer in one write_to
MaxTyTerms == 3      \* terms of a Transform whose type_constraints() is called
MaxModelTerms == 3   \* terms of a Transform whose type model is used
MaxCalls == 2        \* method calls made on one Transform
MaxPartsTerms == 4   \* terms of the arena format_parts is called on

(***************************************************************************)
(* The class hierarchy of alive.language the source tests with isinstance. *)
(***************************************************************************)
IsInstruction(k) == k \in {"BinaryOperator", "ConversionInst"}
IsConstant(k) == k \in {"Literal", "Symbol", "UnaryCnxp", "BinaryCnxp", "FunCnxp"}
IsSymbol(k) == k = "Symbol"
IsInput(k) == k \in {"Input", "Symbol"}
IsPredicate(k) == k \in {"Comparison", "FunPred"}

\* How many operands a term of each class has (term.args()).
Arity(k) ==
  CASE k \in {"Input", "Symbol", "Literal"} -> {0}
    [] k \in {"UnaryCnxp", "ConversionInst"} -> {1}
    [] k \in {"BinaryOperator", "BinaryCnxp", "Comparison"} -> {2}
    [] k = "FunPred" -> {1}
    [] OTHER -> {0}

\* The operand lists a new term of class k may have over the arena g:
\* operands are earlier terms, of any class.
ArgSeqs(g, k) == UNION {[1..n -> 1..Len(g)] : n \in Arity(k)}

NodeOptions(g, kinds) ==
  UNION {{[kind |-> k, args |-> a, name |-> "", ty |-> ""] : a \in ArgSeqs(g, k)} :
           k \in kinds}

Terms == 1..Len(terms)
args(v) == terms[v].args

\* The terms reachable from v (v included) along operand edges.
RECURSIVE Reach(_)
Reach(v) == {v} \cup UNION {Reach(args(v)[i]) : i \in 1..Len(args(v))}

(***************************************************************************)
(* L.subterms(term, seen): every term reachable from term that is not in   *)
(* seen, each once, operands before the term itself; seen is updated.      *)
(* Returns [out, seen].                                                    *)
(***************************************************************************)
RECURSIVE subterms_walk(_, _), subterms_args(_, _, _)
subterms_walk(v, st) ==
  IF v \in st.seen THEN st
  ELSE LET st1 == subterms_args(v, 1, st)
       IN [out |-> Append(st1.out, v), seen |-> st1.seen \cup {v}]
subterms_args(v, i, st) ==
  IF i > Len(args(v)) THEN st
  ELSE subterms_args(v, i + 1, subterms_walk(args(v)[i], st))

subterms(v, seen) == subterms_walk(v, [out |-> <<>>, seen |-> seen])

(***************************************************************************)
(* get_insts(v), transform.py 130-145.  The state of the walk is           *)
(* [insts, seen].                                                          *)
(***************************************************************************)
RECURSIVE get_insts_walk(_, _), get_insts_args(_, _, _)
get_insts_walk_mut(v, st) ==
  IF v \in st.seen \/ ~IsInstruction(terms[v].kind) THEN st
  ELSE LET st1 == [insts |-> Append(st.insts, v), seen |-> st.seen \cup {v}]
       IN get_insts_args(v, 1, st1)
get_insts_walk(v, st) ==
  IF v \in st.seen \/ ~IsInstruction(terms[v].kind) THEN st
  ELSE LET st1 == [st EXCEPT !.seen = @ \cup {v}]
           st2 == get_insts_args(v, 1, st1)
       IN [st2 EXCEPT !.insts = Append(@, v)]
get_insts_args(v, i, st) ==
  IF i > Len(args(v)) THEN st
  ELSE get_insts_args(v, i + 1, get_insts_walk(args(v)[i], st))

get_insts(v) == get_insts_walk(v, [insts |-> <<>>, seen |-> {}]).insts

(***************************************************************************)
(* count_uses(dag, uses), transform.py 147-158.  uses is the Counter, a    *)
(* function whose domain is the set of keys it holds; exp counts the       *)
(* calls of walk per term.  The state of the walk is [uses, exp].          *)
(***************************************************************************)
CounterGet(c, t) == IF t \in DOMAIN c THEN c[t] ELSE 0
CounterInc(c, t) ==
  [x \in DOMAIN c \cup {t} |-> IF x = t THEN CounterGet(c, t) + 1 ELSE c[x]]

RECURSIVE count_uses_walk(_, _), count_uses_args(_, _, _)
count_uses_walk(v, st) ==
  count_uses_args(v, 1, [st EXCEPT !.exp[v] = @ + 1])
count_uses_args(v, i, st) ==
  IF i > Len(args(v)) THEN st
  ELSE LET a == args(v)[i]
           st1 == IF a \notin DOMAIN st.uses THEN count_uses_walk(a, st) ELSE st
       IN count_uses_args(v, i + 1, [st1 EXCEPT !.uses = CounterInc(@, a)])

count_uses(dag, st) == count_uses_walk(dag, st)

NoUses == [uses |-> <<>>, exp |-> [t \in Terms |-> 0]]

(***************************************************************************)
(* constant_defs(tgt, terms), transform.py 160-171.  Returns the state of  *)
(* the counter and the list of generated terms.                            *)
(***************************************************************************)
RECURSIVE count_roots(_, _, _)
count_roots(ts, i, st) ==
  IF i > Len(ts) THEN st ELSE count_roots(ts, i + 1, count_uses(ts[i], st))

constant_defs(tgt, ts) ==
  LET st == count_roots(ts, 1, count_uses(tgt, NoUses))
      IsDef(t) == /\ CounterGet(st.uses, t) > 1
                  /\ IsConstant(terms[t].kind)
                  /\ ~IsSymbol(terms[t].kind)
  IN [st |-> st, defs |-> SelectSeq(subterms(tgt, {}).out, IsDef)]

(***************************************************************************)
(* Specifications of the term-DAG utilities: the arena is any acyclic      *)
(* graph of at most MaxTerms terms, and each action is one call.           *)
(***************************************************************************)
DagKinds == {"Input", "Symbol", "Literal", "UnaryCnxp", "BinaryOperator"}

DagIdle ==
  /\ op = "none"
  /\ root = <<>>
  /\ insts = <<>>
  /\ uses = <<>>
  /\ expanded = <<>>
  /\ cdefs = <<>>

FmtIdle ==
  /\ ids = <<>>
  /\ names = {}
  /\ fresh = 0
  /\ returned = <<>>
  /\ recalled = {}

PrIdle ==
  /\ expr = <<>>
  /\ prec = 0
  /\ doc = <<>>

NoGen == [width |-> 0, prefix |-> "", newline |-> "", suffix |-> "", fits |-> 0,
          broken |-> 0, hp_eol |-> 0]

RenIdle ==
  /\ wr_pc = "start"
  /\ it = "none"
  /\ gen = NoGen
  /\ out = <<>>
  /\ stack = <<>>
  /\ pos = 0
  /\ ev = [type |-> "none"]
  /\ nev = 0
  /\ firstBreak = -1
  /\ eol_base = 0

NoModel == [id |-> 0]

TyIdle ==
  /\ self_src = 0
  /\ self_tgt = 0
  /\ self_pre = 0
  /\ _model = NoModel
  /\ tc_runs = 0
  /\ calls = 0
  /\ ret = [op |-> "none"]
  /\ used = {}


PartsIdle == fp = [pc |-> "none"]

InitDag ==
  /\ terms = <<>>
  /\ DagIdle
  /\ FmtIdle
  /\ PrIdle
  /\ RenIdle
  /\ TyIdle
  /\ PartsIdle



\* A term is constructed over the terms that exist (before any call is made).
NewTerm(kinds, max) ==
  /\ Len(terms) < max
  /\ \E t \in NodeOptions(terms, kinds) : terms' = Append(terms, t)

NewDagTerm ==
  /\ op = "none"
  /\ NewTerm(DagKinds, MaxTerms)
  /\ UNCHANGED <<dagVars, notDag>>

\* insts = get_insts(v)
GetInsts(v) ==
  /\ op = "none"
  /\ op' = "get_insts"
  /\ root' = <<v>>
  /\ insts' = get_insts(v)
  /\ UNCHANGED <<terms, uses, expanded, cdefs, notDag>>

\* count_uses(v) on a fresh counter, or count_uses(v, uses) on the shared one
CountUses(v) ==
  /\ op \in {"none", "count_uses"}
  /\ Len(root) < MaxRoots
  /\ \A i \in 1..Len(root) : root[i] # v
  /\ LET st == count_uses(v, IF op = "none" THEN NoUses
                                            ELSE [uses |-> uses, exp |-> expanded])
     IN /\ uses' = st.uses
        /\ expanded' = st.exp
  /\ op' = "count_uses"
  /\ root' = Append(root, v)
  /\ UNCHANGED <<terms, insts, cdefs, notDag>>

\* list(constant_defs(tgt, ts)), ts being [] or [pre]
ConstantDefs(t, ts) ==
  /\ op = "none"
  /\ LET r == constant_defs(t, ts)
     IN /\ uses' = r.st.uses
        /\ expanded' = r.st.exp
        /\ cdefs' = r.defs
  /\ op' = "constant_defs"
  /\ root' = <<t>> \o ts
  /\ UNCHANGED <<terms, insts, notDag>>

NextInsts ==
  \/ NewDagTerm
  \/ \E v \in Terms : GetInsts(v)
SpecInsts == InitDag /\ [][NextInsts]_vars

NextUses ==
  \/ NewDagTerm
  \/ \E v \in Terms : CountUses(v)
SpecUses == InitDag /\ [][NextUses]_vars

NextDefs ==
  \/ NewDagTerm
  \/ \E t \in Terms : \E ts \in {<<>>} \cup {<<p>> : p \in Terms \ {t}} :
       ConstantDefs(t, ts)
SpecDefs == InitDag /\ [][NextDefs]_vars

(***************************************************************************)
(* Properties of the term-DAG utilities.                                   *)
(***************************************************************************)
ReachAll(rs) == UNION {Reach(rs[i]) : i \in 1..Len(rs)}

\* The instructions reachable from v through instructions only.
RECURSIVE InstReach(_)
InstReach(v) ==
  IF ~IsInstruction(terms[v].kind) THEN {}
  ELSE {v} \cup UNION {InstReach(args(v)[i]) : i \in 1..Len(args(v))}

Occurrences(s, x) == Cardinality({i \in 1..Len(s) : s[i] = x})

\* The operand slots of the terms of ps that hold t.
RECURSIVE EdgesInto(_, _)
EdgesInto(t, ps) ==
  IF ps = {} THEN 0
  ELSE LET q == CHOOSE x \in ps : TRUE
       IN Occurrences(args(q), t) + EdgesInto(t, ps \ {q})

OnlyInstructions == \A i \in 1..Len(insts) : IsInstruction(terms[insts[i]].kind)

ChildrenFirst ==
  \A i \in 1..Len(insts) : \A k \in 1..Len(args(insts[i])) :
    IsInstruction(terms[args(insts[i])[k]].kind)
      => \E j \in 1..(i - 1) : insts[j] = args(insts[i])[k]

\* C4 as stated: get_insts(root) lists only Instructions, lists every
\* Instruction reachable from root exactly once, and lists every instruction
\* after the instructions it has as operands.
C4_AllReachableInsts ==
  op = "get_insts" =>
    /\ OnlyInstructions
    /\ \A t \in Reach(root[1]) :
         IsInstruction(terms[t].kind) => Occurrences(insts, t) = 1
    /\ ChildrenFirst

\* C4 amended: get_insts(root) lists exactly the Instructions reachable from
\* root along paths that pass through Instructions only (none when root is no
\* Instruction), each exactly once, every instruction after the instructions
\* it has as operands.
C4_InstChainInsts ==
  op = "get_insts" =>
    /\ OnlyInstructions
    /\ \A t \in Terms :
         Occurrences(insts, t) = (IF t \in InstReach(root[1]) THEN 1 ELSE 0)
    /\ ChildrenFirst

\* A call that listed three instructions, one of them an operand of two others.
C4_Witness ==
  /\ op = "get_insts"
  /\ Len(insts) >= 3
  /\ \E i, j \in 1..Len(insts) :
       /\ i < j
       /\ EdgesInto(insts[1], {insts[i]}) > 0
       /\ EdgesInto(insts[1], {insts[j]}) > 0

\* C5: after count_uses has run on the roots, sharing one counter, every
\* term's operand list has been expanded at most once and every term's
\* counter is the number of operand slots, of the terms reachable from the
\* roots, that hold it.
C5_UsesCountEdges ==
  op = "count_uses" =>
    \A t \in Terms :
      /\ expanded[t] <= 1
      /\ CounterGet(uses, t) = EdgesInto(t, ReachAll(root))

\* C6: constant_defs(tgt, [pre]) generates, each exactly once, the Constants
\* that are no Symbol and are referenced more than once across the target
\* and the extra roots together, and nothing else.
C6_SharedConstants ==
  op = "constant_defs" =>
    \A t \in Terms :
      Occurrences(cdefs, t) =
        (IF /\ IsConstant(terms[t].kind)
            /\ ~IsSymbol(terms[t].kind)
            /\ EdgesInto(t, ReachAll(root)) > 1
         THEN 1 ELSE 0)

(***************************************************************************)
(* Formatter, transform.py 295-321.                                        *)
(***************************************************************************)
Digit(d) ==
  CASE d = 0 -> "0" [] d = 1 -> "1" [] d = 2 -> "2" [] d = 3 -> "3"
    [] d = 4 -> "4" [] d = 5 -> "5" [] d = 6 -> "6" [] d = 7 -> "7"
    [] d = 8 -> "8" [] d = 9 -> "9"

\* str(n) of a non-negative integer: its decimal digits
RECURSIVE str(_)
str(n) == IF n < 10 THEN Digit(n) ELSE str(n \div 10) \o Digit(n % 10)

\* as name_skip, but an if in place of the while: one step at most
name_skip_once(f, prefix, nm) ==
  IF nm \in f.names
  THEN [f EXCEPT !.fresh = @ + 1, !.ret = prefix \o str(f.fresh)]
  ELSE [f EXCEPT !.ret = nm]

\* The while loop of name(): skip forward until the name is not issued.
RECURSIVE name_skip(_, _, _)
name_skip(f, prefix, nm) ==
  IF nm \in f.names
  THEN name_skip([f EXCEPT !.fresh = @ + 1], prefix, prefix \o str(f.fresh))
  ELSE [f EXCEPT !.ret = nm]

\* Formatter.name(term) on the Formatter f = [ids, names, fresh, ret];
\* ret is the value returned.
name_noadd(f, t) ==
  IF t \in DOMAIN f.ids THEN [f EXCEPT !.ret = f.ids[t]]
  ELSE
    LET prefix == IF IsConstant(terms[t].kind) THEN "C" ELSE "%"
        user == /\ IsInput(terms[t].kind) \/ IsInstruction(terms[t].kind)
                /\ terms[t].name # ""
        f1 == IF user THEN f ELSE [f EXCEPT !.fresh = @ + 1]
        nm == IF user THEN terms[t].name ELSE prefix \o str(f.fresh)
        f2 == name_skip(f1, prefix, nm)
    IN [f2 EXCEPT !.ids = [x \in DOMAIN f.ids \cup {t} |->
                             IF x = t THEN f2.ret ELSE f.ids[x]]]
name(f, t) ==
  IF t \in DOMAIN f.ids THEN [f EXCEPT !.ret = f.ids[t]]
  ELSE
    LET prefix == IF IsConstant(terms[t].kind) THEN "C" ELSE "%"
        user == /\ IsInput(terms[t].kind) \/ IsInstruction(terms[t].kind)
                /\ terms[t].name # ""
        f1 == IF user THEN f ELSE [f EXCEPT !.fresh = @ + 1]
        nm == IF user THEN terms[t].name ELSE prefix \o str(f.fresh)
        f2 == name_skip(f1, prefix, nm)
    IN [f2 EXCEPT !.ids = [x \in DOMAIN f.ids \cup {t} |->
                             IF x = t THEN f2.ret ELSE f.ids[x]],
                  !.names = @ \cup {f2.ret}]

\* The names a user may have given: some equal to names name() synthesizes.
UserNames == {"", "%0", "%1", "C0"}
FmtKinds == {"Input", "Literal", "ConversionInst"}

\* A term is constructed, with a user-given name if its class carries one;
\* an instruction's operand is the term constructed last (name() reads no
\* operand).
NewNamedTerm ==
  /\ Len(terms) < MaxNamed
  /\ \E t \in NodeOptions(terms, FmtKinds) : \E n \in UserNames :
       /\ n # "" => IsInput(t.kind) \/ IsInstruction(t.kind)
       /\ \A i \in 1..Len(t.args) : t.args[i] = Len(terms)
       /\ terms' = Append(terms, [t EXCEPT !.name = n])
       /\ returned' = Append(returned, {})
  /\ UNCHANGED <<ids, names, fresh, recalled, notFmt>>

\* fmt.name(t)
Name(t) ==
  /\ LET f == name([ids |-> ids, names |-> names, fresh |-> fresh, ret |-> ""], t)
     IN /\ ids' = f.ids
        /\ names' = f.names
        /\ fresh' = f.fresh
        /\ returned' = [returned EXCEPT ![t] = @ \cup {f.ret}]
  /\ recalled' = IF returned[t] # {} THEN recalled \cup {t} ELSE recalled
  /\ UNCHANGED <<terms, notFmt>>

InitFmt ==
  /\ terms = <<>>
  /\ DagIdle
  /\ FmtIdle
  /\ PrIdle
  /\ RenIdle
  /\ TyIdle
  /\ PartsIdle



NextFmt ==
  \/ NewNamedTerm
  \/ \E t \in Terms : Name(t)
SpecFmt == InitFmt /\ [][NextFmt]_vars

\* C3: within one Formatter, whatever calls of name() came before, name(t)
\* returns the same string every time it is called on the term t, and never
\* returns one string for two distinct terms.
C3_NamingStable ==
  \A t \in DOMAIN returned :
    /\ Cardinality(returned[t]) <= 1
    /\ \A u \in DOMAIN returned : u # t => returned[u] \cap returned[t] = {}

\* Two terms with the same user-given name, a term whose user-given name is a
\* name synthesized earlier for another term, and a second call on a term.
C3_Witness ==
  \E t, u, v, w \in DOMAIN returned :
    /\ t # u /\ terms[t].name # "" /\ terms[t].name = terms[u].name
    /\ returned[t] # {} /\ returned[u] # {}
    /\ terms[v].name = "" /\ terms[w].name # ""
    /\ returned[v] = {terms[w].name} /\ returned[w] # {}
    /\ w \in recalled

\* C15: name(term) on a term with no assigned name returns the user-given
\* name when the term is an Input or Instruction with a non-empty name not
\* issued yet; otherwise the prefix ('C' for a Constant, '%' for any other
\* term) followed by the smallest counter value, not below the current
\* counter, whose name has not been issued; the counter never decreases
\* and the returned name is added to the issued set.
C15_NameChosen ==
  [][\A t \in Terms : (t \notin DOMAIN ids /\ t \in DOMAIN ids') =>
       LET prefix == IF IsConstant(terms[t].kind) THEN "C" ELSE "%"
           user == /\ IsInput(terms[t].kind) \/ IsInstruction(terms[t].kind)
                   /\ terms[t].name # ""
                   /\ terms[t].name \notin names
       IN /\ user => ids'[t] = terms[t].name
          /\ ~user =>
               \E n \in fresh..(fresh + Cardinality(names)) :
                 /\ ids'[t] = prefix \o str(n)
                 /\ ids'[t] \notin names
                 /\ \A m \in fresh..(n - 1) : (prefix \o str(m)) \in names
          /\ fresh' >= fresh
          /\ names' = names \cup {ids'[t]}
          /\ t \in DOMAIN returned' /\ returned'[t] = returned[t] \cup {ids'[t]}
    ]_vars

\* two Inputs were given their user names %0 and %1, and then an unnamed
\* term was named %2, the counter passing 0 and 1 in that one call
C15_Witness ==
  \E t, u, v \in DOMAIN ids :
    /\ terms[t].name = "%0" /\ ids[t] = "%0"
    /\ terms[u].name = "%1" /\ ids[u] = "%1"
    /\ terms[v].name = "" /\ ids[v] = "%2"
    /\ fresh = 3

(***************************************************************************)
(* The BinaryCnxp printer, transform.py 435-480.  An expression is a tree  *)
(* of BinaryCnxp terms over Literals, held in prefix order; the i-th       *)
(* Literal from the left has the value i.  A document is modelled by the   *)
(* tokens it renders to on one line (pretty.line renders as " ").          *)
(***************************************************************************)
_bin_cnxp_prec(code) ==
  CASE code \in {"*", "/", "/u", "%", "%u"} -> 9
    [] code \in {"+", "-"} -> 8
    [] code \in {">>", "<<", "u>>"} -> 7
    [] code = "&" -> 6
    [] code = "^" -> 5
    [] code = "|" -> 4
    [] code = "&&" -> 2
    [] code = "||" -> 1

_bin_cnxp_lassoc == {"-", "/", "/u", "%", "%u", "<<", ">>", "u>>"}

Codes == {"*", "/", "/u", "%", "%u", "+", "-", ">>", "<<", "u>>",
          "&", "^", "|", "&&", "||"}

IsBinaryCnxp(i) == expr[i] # "."

\* The value of the Literal at position i.
LiteralVal(i) == Cardinality({j \in 1..i : expr[j] = "."})

\* Whether format_doc[BinaryCnxp] parenthesizes an operator of precedence
\* op_prec under the enclosing precedence p (line 477).
needs_parens_table(p, op_prec) == p >= op_prec
needs_parens(p, op_prec) == p >= op_prec \/ (0 < p /\ p < 8)

\* format_doc(term at i, fmt, p) and the gather of the BinaryCnxp printer;
\* both return [doc, next], next being the position after the term.
RECURSIVE format_doc(_, _), gather(_, _)
format_doc(i, p) ==
  IF ~IsBinaryCnxp(i) THEN [doc |-> <<str(LiteralVal(i))>>, next |-> i + 1]
  ELSE LET op_prec == _bin_cnxp_prec(expr[i])
           body == gather(i, op_prec)
       IN IF needs_parens(p, op_prec)
          THEN [body EXCEPT !.doc = <<"(">> \o @ \o <<")">>]
          ELSE body
gather(i, op_prec) ==
  IF ~IsBinaryCnxp(i) \/ op_prec # _bin_cnxp_prec(expr[i])
  THEN format_doc(i, op_prec)
  ELSE LET x == gather(i + 1, op_prec)
           y == IF expr[i] \in _bin_cnxp_lassoc
                THEN format_doc(x.next, op_prec)
                ELSE gather(x.next, op_prec)
       IN [doc |-> x.doc \o <<" ", expr[i], " ">> \o y.doc, next |-> y.next]

InitPr ==
  /\ terms = <<>>
  /\ DagIdle
  /\ FmtIdle
  /\ expr = <<".">>
  /\ prec = 0
  /\ doc = <<>>
  /\ RenIdle
  /\ TyIdle
  /\ PartsIdle



Ops == Cardinality({i \in 1..Len(expr) : IsBinaryCnxp(i)})

\* The Literal at position i becomes the BinaryCnxp code(Literal, Literal).
NewBinaryCnxp(i, code) ==
  /\ doc = <<>>
  /\ Ops < MaxOps
  /\ expr[i] = "."
  /\ expr' = SubSeq(expr, 1, i - 1) \o <<code, ".", ".">> \o SubSeq(expr, i + 1, Len(expr))
  /\ UNCHANGED <<prec, doc, notPr>>

\* doc = format_doc(expr, fmt, p)
FormatDoc(p) ==
  /\ doc = <<>>
  /\ prec' = p
  /\ doc' = format_doc(1, p).doc
  /\ UNCHANGED <<expr, notPr>>


NextPr ==
  \/ \E i \in 1..Len(expr) : \E c \in Codes : NewBinaryCnxp(i, c)
  \/ \E p \in 0..10 : FormatDoc(p)
SpecPr == InitPr /\ [][NextPr]_vars

\* The position of the ")" that closes the "(" at position 1 of d.
RECURSIVE CloseOf(_, _, _)
CloseOf(d, i, depth) ==
  IF i > Len(d) THEN 0
  ELSE LET dd == IF d[i] = "(" THEN depth + 1
                 ELSE IF d[i] = ")" THEN depth - 1 ELSE depth
       IN IF dd = 0 THEN i ELSE CloseOf(d, i + 1, dd)

\* The whole of d is inside one pair of parentheses.
Wrapped(d) == d # <<>> /\ d[1] = "(" /\ CloseOf(d, 1, 0) = Len(d)

Printed == doc # <<>> /\ IsBinaryCnxp(1)
HasParen(d) == \E i \in 1..Len(d) : d[i] = "("

\* The operand positions of the BinaryCnxp at the root of a two-operator tree.
RightIsOp == Len(expr) = 5 /\ expr[2] = "." /\ IsBinaryCnxp(3)
LeftIsOp == Len(expr) = 5 /\ IsBinaryCnxp(2)
ChildCode == IF LeftIsOp THEN expr[2] ELSE expr[3]

\* C9 as stated: the printer parenthesizes its output if and only if the
\* enclosing precedence is at least the operator's precedence in the table.
C9_ParensIffTable ==
  Printed => (Wrapped(doc) <=> prec >= _bin_cnxp_prec(expr[1]))

\* C9 amended: the printer parenthesizes its output if and only if the
\* enclosing precedence is at least the operator's table precedence or lies
\* strictly between 0 and 8; a multiplicative sub-expression of an additive
\* expression is printed without parentheses and an additive sub-expression
\* of a multiplicative expression with them.
C9_ParensIffTableOrLow ==
  Printed =>
    /\ Wrapped(doc) <=>
         (prec >= _bin_cnxp_prec(expr[1]) \/ (0 < prec /\ prec < 8))
    /\ (/\ prec = 0 /\ (LeftIsOp \/ RightIsOp)
        /\ _bin_cnxp_prec(expr[1]) = 8 /\ _bin_cnxp_prec(ChildCode) = 9)
         => ~HasParen(doc)
    /\ (/\ prec = 0 /\ (LeftIsOp \/ RightIsOp)
        /\ _bin_cnxp_prec(expr[1]) = 9 /\ _bin_cnxp_prec(ChildCode) = 8)
         => HasParen(doc) /\ ~Wrapped(doc)

\* A multiplication printed in parentheses under the precedence of a
\* Comparison operand (3), below its own precedence.
C9_Witness ==
  /\ Printed
  /\ expr[1] = "*"
  /\ prec = 3
  /\ Wrapped(doc)

\* Reading a printed chain back: the tokens without the spaces are parsed
\* with the precedence table, operators of one precedence grouping to the
\* left; the result is [tree, next], tree in prefix order.
NoSpace(t) == t # " "
RECURSIVE parse_expr(_, _, _), parse_loop(_, _, _), parse_primary(_, _)
parse_primary(d, i) ==
  IF d[i] = "(" THEN [parse_expr(d, i + 1, 0) EXCEPT !.next = @ + 1]
  ELSE [tree |-> <<d[i]>>, next |-> i + 1]
parse_rhs(d, lhs, rhs) ==
  [tree |-> <<d[lhs.next]>> \o lhs.tree \o rhs.tree, next |-> rhs.next]
parse_loop(d, lhs, minp) ==
  IF lhs.next <= Len(d) /\ d[lhs.next] \in Codes /\ _bin_cnxp_prec(d[lhs.next]) >= minp
  THEN parse_loop(d, parse_rhs(d, lhs, parse_expr(d, lhs.next + 1,
                                          _bin_cnxp_prec(d[lhs.next]) + 1)), minp)
  ELSE lhs
parse_expr(d, i, minp) == parse_loop(d, parse_primary(d, i), minp)

Parsed == parse_expr(SelectSeq(doc, NoSpace), 1, 0).tree
Original == [i \in 1..Len(expr) |-> IF expr[i] = "." THEN str(LiteralVal(i)) ELSE expr[i]]

\* A tree with every run of one associative operator grouped to the left.
RECURSIVE TreeEnd(_, _), Regrouped(_)
TreeEnd(t, i) == IF t[i] \in Codes THEN TreeEnd(t, TreeEnd(t, i + 1)) ELSE i + 1
Rotated(o, l, r) ==
  IF r[1] = o /\ o \notin _bin_cnxp_lassoc
  THEN Regrouped(<<o, o>> \o l \o SubSeq(r, 2, Len(r)))
  ELSE <<o>> \o l \o r
Regrouped(t) ==
  IF t[1] \notin Codes THEN t
  ELSE Rotated(t[1], Regrouped(SubSeq(t, 2, TreeEnd(t, 2) - 1)),
                     Regrouped(SubSeq(t, TreeEnd(t, 2), Len(t))))

\* C14: a nested BinaryCnxp operand is merged into the chain without
\* parentheses only when it has the operator of the enclosing term, the
\* right operand of a left-associative-only operator is never merged, and
\* reading the printed chain with the precedence table gives back the
\* original tree up to regrouping of a run of one associative operator.
C14_ChainReadsBack ==
  Printed =>
    /\ (/\ LeftIsOp \/ RightIsOp
        /\ _bin_cnxp_prec(ChildCode) = _bin_cnxp_prec(expr[1])
        /\ ~HasParen(IF Wrapped(doc) THEN SubSeq(doc, 2, Len(doc) - 1) ELSE doc))
         => (ChildCode = expr[1] /\ ~(RightIsOp /\ expr[1] \in _bin_cnxp_lassoc))
    /\ Regrouped(Parsed) = Regrouped(Original)

(***************************************************************************)
(* text_events_line_continue, transform.py 554-594.  An event is a record: *)
(* event[0] is type, event[1] is hp (known = FALSE when it is None) and    *)
(* event[2] is text or indent.                                             *)
(***************************************************************************)
RECURSIVE Spaces(_)
Spaces(n) == IF n <= 0 THEN "" ELSE " " \o Spaces(n - 1)

\* Lines 555-559: the generator runs to its first yield.
tel_start(w, prefix, suffix, start_at) ==
  [width |-> w - Len(prefix), prefix |-> prefix, newline |-> "\n" \o prefix,
   suffix |-> suffix, fits |-> 0, broken |-> 0, hp_eol |-> (w - Len(prefix)) - start_at]

\* Lines 564-594: one event.  Returns [gen, out]: the locals after the event
\* and the strings passed to out().
tel_event_always_suffix(g, e) ==
  CASE e.type = "Text" -> [gen |-> g, out |-> <<e.text>>]
    [] e.type = "Line" /\ g.fits # 0 -> [gen |-> g, out |-> <<" ">>]
    [] (e.type = "Line" /\ g.fits = 0) \/ (e.type = "Break" /\ g.fits = 0) ->
         [gen |-> [g EXCEPT !.hp_eol = e.hp + g.width - e.indent - Len(g.suffix)],
          out |-> <<g.suffix, g.newline, Spaces(e.indent)>>]
    [] e.type = "GBegin" ->
         [gen |-> IF g.fits # 0 THEN [g EXCEPT !.fits = @ + 1]
                  ELSE IF e.known /\ e.hp <= g.hp_eol THEN [g EXCEPT !.fits = 1]
                  ELSE IF g.broken # 0 THEN [g EXCEPT !.broken = @ + 1]
                  ELSE [g EXCEPT !.broken = 1, !.hp_eol = @ - Len(g.suffix)],
          out |-> <<>>]
    [] e.type = "GEnd" ->
         [gen |-> IF g.fits # 0 THEN [g EXCEPT !.fits = @ - 1]
                  ELSE [g EXCEPT !.broken = @ - 1],
          out |-> <<>>]
    [] OTHER -> [gen |-> g, out |-> <<>>]
\* as tel_event, but a hard break does not look at fits
tel_event_break_always(g, e) ==
  CASE e.type = "Text" -> [gen |-> g, out |-> <<e.text>>]
    [] e.type = "Line" /\ g.fits # 0 -> [gen |-> g, out |-> <<" ">>]
    [] (e.type = "Line" /\ g.fits = 0) \/ e.type = "Break" ->
         LET h == e.hp + g.width - e.indent
         IN IF g.broken # 0
            THEN [gen |-> [g EXCEPT !.hp_eol = h - Len(g.suffix)],
                  out |-> <<g.suffix, g.newline, Spaces(e.indent)>>]
            ELSE [gen |-> [g EXCEPT !.hp_eol = h],
                  out |-> <<g.newline, Spaces(e.indent)>>]
    [] e.type = "GBegin" ->
         [gen |-> IF g.fits # 0 THEN [g EXCEPT !.fits = @ + 1]
                  ELSE IF e.known /\ e.hp <= g.hp_eol THEN [g EXCEPT !.fits = 1]
                  ELSE IF g.broken # 0 THEN [g EXCEPT !.broken = @ + 1]
                  ELSE [g EXCEPT !.broken = 1, !.hp_eol = @ - Len(g.suffix)],
          out |-> <<>>]
    [] e.type = "GEnd" ->
         [gen |-> IF g.fits # 0 THEN [g EXCEPT !.fits = @ - 1]
                  ELSE [g EXCEPT !.broken = @ - 1],
          out |-> <<>>]
    [] OTHER -> [gen |-> g, out |-> <<>>]
\* as tel_event, but a group-end always decrements fits
tel_event_gend_fits(g, e) ==
  CASE e.type = "Text" -> [gen |-> g, out |-> <<e.text>>]
    [] e.type = "Line" /\ g.fits # 0 -> [gen |-> g, out |-> <<" ">>]
    [] (e.type = "Line" /\ g.fits = 0) \/ (e.type = "Break" /\ g.fits = 0) ->
         LET h == e.hp + g.width - e.indent
         IN IF g.broken # 0
            THEN [gen |-> [g EXCEPT !.hp_eol = h - Len(g.suffix)],
                  out |-> <<g.suffix, g.newline, Spaces(e.indent)>>]
            ELSE [gen |-> [g EXCEPT !.hp_eol = h],
                  out |-> <<g.newline, Spaces(e.indent)>>]
    [] e.type = "GBegin" ->
         [gen |-> IF g.fits # 0 THEN [g EXCEPT !.fits = @ + 1]
                  ELSE IF e.known /\ e.hp <= g.hp_eol THEN [g EXCEPT !.fits = 1]
                  ELSE IF g.broken # 0 THEN [g EXCEPT !.broken = @ + 1]
                  ELSE [g EXCEPT !.broken = 1, !.hp_eol = @ - Len(g.suffix)],
          out |-> <<>>]
    [] e.type = "GEnd" ->
         [gen |-> [g EXCEPT !.fits = @ - 1],
          out |-> <<>>]
    [] OTHER -> [gen |-> g, out |-> <<>>]
tel_event(g, e) ==
  CASE e.type = "Text" -> [gen |-> g, out |-> <<e.text>>]
    [] e.type = "Line" /\ g.fits # 0 -> [gen |-> g, out |-> <<" ">>]
    [] (e.type = "Line" /\ g.fits = 0) \/ (e.type = "Break" /\ g.fits = 0) ->
         LET h == e.hp + g.width - e.indent
         IN IF g.broken # 0
            THEN [gen |-> [g EXCEPT !.hp_eol = h - Len(g.suffix)],
                  out |-> <<g.suffix, g.newline, Spaces(e.indent)>>]
            ELSE [gen |-> [g EXCEPT !.hp_eol = h],
                  out |-> <<g.newline, Spaces(e.indent)>>]
    [] e.type = "GBegin" ->
         [gen |-> IF g.fits # 0 THEN [g EXCEPT !.fits = @ + 1]
                  ELSE IF e.known /\ e.hp <= g.hp_eol THEN [g EXCEPT !.fits = 1]
                  ELSE IF g.broken # 0 THEN [g EXCEPT !.broken = @ + 1]
                  ELSE [g EXCEPT !.broken = 1, !.hp_eol = @ - Len(g.suffix)],
          out |-> <<>>]
    [] e.type = "GEnd" ->
         [gen |-> IF g.fits # 0 THEN [g EXCEPT !.fits = @ - 1]
                  ELSE [g EXCEPT !.broken = @ - 1],
          out |-> <<>>]
    [] OTHER -> [gen |-> g, out |-> <<>>]

(***************************************************************************)
(* Formatted.write_to, transform.py 286-292: the generator is created and  *)
(* primed, the document's events are sent, the generator is closed.        *)
(***************************************************************************)
Width == 8
Indents == {0, 2}

\* Lines 288-290: it = ...text_events_line_continue(width, file.write, **kws);
\* it.next()
WriteTo_Prime(prefix) ==
  /\ wr_pc = "start"
  /\ it = "none"
  /\ gen' = tel_start(Width, prefix, " \\", 0)
  /\ it' = "suspended"
  /\ wr_pc' = "sending"
  /\ eol_base' = Width - Len(prefix)
  /\ UNCHANGED <<out, stack, pos, ev, nev, firstBreak, notRen>>

\* The events a document may send next: the stream is well nested, and hp
\* is the horizontal position of the text sent so far.
Events ==
  {[type |-> "Text", hp |-> pos + Len(t), text |-> t] : t \in {"ab"}}
  \cup {[type |-> "Line", hp |-> pos + 1, indent |-> i] : i \in Indents}
  \cup {[type |-> "Break", hp |-> pos, indent |-> i] : i \in Indents}
  \cup {[type |-> "GBegin", hp |-> pos + d, known |-> TRUE] : d \in {1, 6}}
  \cup {[type |-> "GBegin", hp |-> 0, known |-> FALSE]}
  \cup (IF stack # <<>> THEN {[type |-> "GEnd"]} ELSE {})

\* Line 291, one event of send_to: it.send(event)
Send(e) ==
  /\ wr_pc = "sending"
  /\ it = "suspended"
  /\ nev < MaxEvents
  /\ LET r == tel_event(gen, e)
     IN /\ gen' = r.gen
        /\ out' = out \o r.out
        /\ stack' = CASE e.type = "GBegin" ->
                            Append(stack, IF r.gen.fits > gen.fits THEN "fits" ELSE "broken")
                       [] e.type = "GEnd" -> SubSeq(stack, 1, Len(stack) - 1)
                       [] OTHER -> stack
        /\ firstBreak' = IF firstBreak < 0 /\ r.gen.broken > gen.broken
                         THEN Len(out) ELSE firstBreak
        /\ eol_base' = IF \E i \in 1..Len(r.out) : r.out[i] = gen.newline
                       THEN e.hp + gen.width - e.indent ELSE eol_base
  /\ pos' = IF e.type \in {"Text", "Line"} THEN e.hp ELSE pos
  /\ ev' = e
  /\ nev' = nev + 1
  /\ UNCHANGED <<wr_pc, it, notRen>>

\* Line 291 raises before an event is sent: format_doc finds no printer for
\* a term of the document (line 341); write_to is left by the exception and
\* the generator stays at its yield.
SendRaises ==
  /\ wr_pc = "sending"
  /\ wr_pc' = "raised"
  /\ UNCHANGED <<it, gen, out, stack, pos, ev, nev, firstBreak, eol_base, notRen>>

\* Line 291, it.send(event) with a sink that raises in the k-th call of
\* out() the event makes (lines 565, 568, 574, 576, 577): the strings before
\* it are written, the exception leaves the generator, which is finished by
\* it, and then write_to.  r is what the event does with a sink that works;
\* the locals of the finished generator are gone, gen keeps those the event
\* began with.
OutRaisesIn(r, k) ==
  /\ k \in 1..Len(r.out)
  /\ out' = out \o SubSeq(r.out, 1, k - 1)
  /\ it' = "closed"
  /\ wr_pc' = "raised"
  /\ UNCHANGED <<gen, stack, pos, ev, nev, firstBreak, eol_base, notRen>>

OutRaises(e, k) ==
  /\ wr_pc = "sending"
  /\ it = "suspended"
  /\ nev < MaxEvents
  /\ OutRaisesIn(tel_event(gen, e), k)

\* Line 292, after the whole document was sent: it.close()
WriteTo_Close ==
  /\ wr_pc = "sending"
  /\ stack = <<>>
  /\ it' = "closed"
  /\ wr_pc' = "done"
  /\ UNCHANGED <<gen, out, stack, pos, ev, nev, firstBreak, eol_base, notRen>>

InitRen ==
  /\ terms = <<>>
  /\ DagIdle
  /\ FmtIdle
  /\ PrIdle
  /\ RenIdle
  /\ TyIdle
  /\ PartsIdle



NextRen ==
  \/ \E p \in {"", "# "} : WriteTo_Prime(p)
  \/ \E e \in Events : Send(e)
  \/ SendRaises
  \/ \E e \in Events : \E k \in 1..3 : OutRaises(e, k)
  \/ WriteTo_Close
SpecRen == InitRen /\ [][NextRen]_vars

IsNewline(s) == s = gen.newline
IsSuffix(s) == s = gen.suffix

\* C7 as stated: once a group has been broken every newline emitted
\* afterwards is immediately preceded by the suffix, no suffix is emitted
\* before the first break has begun, and every newline is immediately
\* followed by the prefix and then the indent.
C7_SuffixOnceBroken ==
  \A i \in 1..Len(out) :
    /\ (IsNewline(out[i]) /\ firstBreak >= 0 /\ i > firstBreak)
         => (i > 1 /\ IsSuffix(out[i - 1]))
    /\ IsSuffix(out[i]) => (firstBreak >= 0 /\ i > firstBreak)
    /\ IsNewline(out[i]) =>
         /\ i < Len(out)
         /\ \E n \in Indents : out[i + 1] = Spaces(n)

\* C7 amended: a newline is immediately preceded by the suffix if and only
\* if a broken group is open when it is emitted (a line or break outside
\* every group is emitted without the suffix, also after an earlier group was
\* broken); no suffix is emitted before the first break has begun or
\* anywhere but before a newline; every newline is the newline character
\* and the prefix, immediately followed by the event's indent (for every
\* event the generator handles to its next yield).
C7_SuffixWhileBroken ==
  [][LET new == SubSeq(out', Len(out) + 1, Len(out'))
     IN \A i \in 1..Len(new) : nev' = nev + 1 =>
          /\ new[i] = gen.newline =>
               /\ (gen.broken > 0) <=> (i > 1 /\ new[i - 1] = gen.suffix)
               /\ i < Len(new) /\ new[i + 1] = Spaces(ev'.indent)
               /\ i + 1 = Len(new)
               /\ new[i] = "\n" \o gen.prefix
          /\ new[i] = gen.suffix =>
               /\ firstBreak >= 0
               /\ i < Len(new) /\ new[i + 1] = gen.newline
    ]_vars

\* A newline emitted with the suffix inside a broken group, and a later one
\* emitted without it after that group was closed.
C7_Witness ==
  /\ firstBreak >= 0
  /\ \E i, j \in 1..Len(out) :
       /\ i < j
       /\ IsSuffix(out[i]) /\ IsNewline(out[i + 1])
       /\ IsNewline(out[j]) /\ ~IsSuffix(out[j - 1])

\* C8: in every execution of write_to the generator is primed before the
\* first event is sent and closed after the last, however write_to ends.
C8_AlwaysClosed ==
  /\ nev > 0 => it # "none"
  /\ wr_pc \in {"done", "raised"} => it = "closed"

\* The strings the event just sent passed to out().
Emitted == SubSeq(out', Len(out) + 1, Len(out'))
Sent == nev' = nev + 1
\* An enclosing open group was judged to fit.
InFit == \E i \in 1..Len(stack) : stack[i] = "fits"
CountOf(k) == Cardinality({i \in 1..Len(stack) : stack[i] = k})
\* a newline and the event's indent, after the suffix if there is one
BrokenLine(new, e) ==
  /\ Len(new) \in {2, 3}
  /\ new[Len(new) - 1] = gen.newline
  /\ new[Len(new)] = Spaces(e.indent)
  /\ Len(new) = 3 => new[1] = gen.suffix

\* C17: a soft-line event emits exactly one space when an enclosing open
\* group was judged to fit, and otherwise a newline followed by the
\* event's indent; a hard-break event emits nothing when an enclosing open
\* group was judged to fit, and otherwise a newline followed by the
\* indent; a text event emits exactly its text.
C17_EventOutput ==
  [][Sent =>
       /\ ev'.type = "Text" => Emitted = <<ev'.text>>
       /\ (ev'.type = "Line" /\ InFit) => Emitted = <<" ">>
       /\ (ev'.type = "Line" /\ ~InFit) => BrokenLine(Emitted, ev')
       /\ (ev'.type = "Break" /\ InFit) => Emitted = <<>>
       /\ (ev'.type = "Break" /\ ~InFit) => BrokenLine(Emitted, ev')
       /\ ev'.type \in {"GBegin", "GEnd"} => Emitted = <<>>
    ]_vars

\* a hard break inside a fitting group nested in a broken one, after a soft
\* line of the broken group was emitted as a newline with indent 2
C17_Witness ==
  /\ ev.type = "Break"
  /\ Len(stack) = 2
  /\ stack[1] = "broken"
  /\ stack[2] = "fits"
  /\ Len(out) = 3
  /\ out[3] = Spaces(2)

\* C18: fits and broken are never negative, their sum is the number of
\* open groups, every group opened while fits > 0 is counted as fitting,
\* each group-end decrements the counter its matching group-begin
\* incremented, and both counters are zero when the stream ends.
C18_GroupCounters ==
  /\ [](wr_pc # "start" =>
          /\ gen.fits >= 0
          /\ gen.broken >= 0
          /\ gen.fits = CountOf("fits")
          /\ gen.broken = CountOf("broken")
          /\ gen.fits + gen.broken = Len(stack)
          /\ (wr_pc = "done" => gen.fits = 0 /\ gen.broken = 0))
  /\ [][(Sent /\ ev'.type = "GBegin" /\ gen.fits > 0) =>
          (gen'.fits = gen.fits + 1 /\ gen'.broken = gen.broken)]_vars
  /\ [][(Sent /\ ev'.type = "GEnd") =>
          IF stack[Len(stack)] = "fits"
          THEN gen'.fits = gen.fits - 1 /\ gen'.broken = gen.broken
          ELSE gen'.broken = gen.broken - 1 /\ gen'.fits = gen.fits]_vars

\* the stream has ended after a fitting group nested in a broken group was
\* closed, then the broken group
C18_Witness ==
  /\ wr_pc = "done"
  /\ nev >= 4
  /\ firstBreak >= 0
  /\ ev.type = "GEnd"

\* C19: hp_eol reserves the length of the suffix exactly once when at
\* least one broken group is open and nothing when none is open.
C19_SuffixReservedOnce ==
  wr_pc # "start" =>
    gen.hp_eol = eol_base - (IF gen.broken > 0 THEN Len(gen.suffix) ELSE 0)

(***************************************************************************)
(* alive.typing.TypeConstraints, the collector the terms record their      *)
(* constraints into.  t = [rep, specifics, bools, defaulted]: rep maps     *)
(* every registered term to the representative of its class (the oldest    *)
(* term of the class), specifics and bools are the representatives pinned  *)
(* to a concrete type and constrained boolean, defaulted lists the         *)
(* representatives default() was applied to, in order.  With the term      *)
(* classes below no two constraints conflict, so collecting never raises.  *)
(***************************************************************************)
NoConstraints == [rep |-> <<>>, specifics |-> {}, bools |-> {}, defaulted |-> <<>>]

sets_reps(t) == {t.rep[x] : x \in DOMAIN t.rep}
sets_rep(t, x) == IF x \in DOMAIN t.rep THEN t.rep[x] ELSE x

tc_register(t, x) ==
  IF x \in DOMAIN t.rep THEN t
  ELSE [t EXCEPT !.rep = [y \in DOMAIN t.rep \cup {x} |->
                            IF y = x THEN x ELSE t.rep[y]]]

\* the class of representative o joins the class of representative r
tc_merge(t, r, o) ==
  IF r = o THEN t
  ELSE [t EXCEPT !.rep = [y \in DOMAIN t.rep |-> IF t.rep[y] = o THEN r ELSE t.rep[y]],
                 !.specifics = IF o \in @ THEN (@ \ {o}) \cup {r} ELSE @,
                 !.bools = IF o \in @ THEN (@ \ {o}) \cup {r} ELSE @]

tc_union(t, a, b) ==
  IF t.rep[a] < t.rep[b] THEN tc_merge(t, t.rep[a], t.rep[b])
  ELSE tc_merge(t, t.rep[b], t.rep[a])

tc_unify(t, a, b) == tc_union(tc_register(tc_register(t, a), b), a, b)

RECURSIVE tc_eq_types(_, _, _)
tc_eq_types(t, xs, i) ==
  IF i > Len(xs) THEN t
  ELSE tc_eq_types(IF i = 1 THEN tc_register(t, xs[1])
                            ELSE tc_unify(t, xs[1], xs[i]), xs, i + 1)

tc_mark_bool(t, x) == [t EXCEPT !.bools = @ \cup {t.rep[x]}]
tc_bool(t, x) == tc_mark_bool(tc_register(t, x), x)

tc_mark_specific(t, x, ty) ==
  IF ty = "" THEN t ELSE [t EXCEPT !.specifics = @ \cup {t.rep[x]}]
tc_specific(t, x, ty) == tc_mark_specific(tc_register(t, x), x, ty)

tc_default(t, r) == [t EXCEPT !.defaulted = Append(@, r)]

\* term.type_constraints(t) with t a TypeConstraints
term_type_constraints(t, v) ==
  LET k == terms[v].kind
      a == args(v)
  IN CASE k = "BinaryOperator" -> tc_eq_types(t, <<v, a[1], a[2]>>, 1)
       [] k = "ConversionInst" -> tc_register(tc_specific(t, v, terms[v].ty), a[1])
       [] k = "Comparison" -> tc_eq_types(tc_bool(t, v), <<a[1], a[2]>>, 1)
       [] k = "FunPred" -> tc_register(tc_bool(t, v), a[1])
       [] OTHER -> tc_register(t, v)

(***************************************************************************)
(* Transform.type_constraints(), transform.py 38-88, on the Transform      *)
(* (s, g, p) = (src, tgt, pre), p = 0 standing for None.  The locals of    *)
(* the method are c = [t, seen, src_reps, defaultable, reps].  Returns     *)
(* [raised, exc, named, reps, t]: whether an exception leaves the method,   *)
(* its class, the representatives its message names, the local reps when   *)
(* the method is left, and the collector.                                  *)
(***************************************************************************)
RECURSIVE tc_terms(_, _, _)
\* for term in ts: term.type_constraints(t)
tc_terms(ts, i, t) ==
  IF i > Len(ts) THEN t
  ELSE tc_terms(ts, i + 1, term_type_constraints(t, ts[i]))

RECURSIVE tc_defaultable(_, _, _)
\* the immediate arguments of the Comparisons and FunPreds among ts
tc_defaultable(ts, i, d) ==
  IF i > Len(ts) THEN d
  ELSE tc_defaultable(ts, i + 1,
         IF IsPredicate(terms[ts[i]].kind) THEN d \o args(ts[i]) ELSE d)

RECURSIVE tc_default_loop(_, _, _)
\* lines 74-79: for term in defaultable: ...
tc_default_loop(d, i, c) ==
  IF i > Len(d) THEN c
  ELSE tc_default_loop(d, i + 1,
         IF sets_rep(c.t, d[i]) \in c.reps
         THEN [c EXCEPT !.t = tc_default(@, sets_rep(c.t, d[i])),
                        !.reps = @ \ {sets_rep(c.t, d[i])}]
         ELSE c)

tc_start ==
  [t |-> NoConstraints, seen |-> {}, src_reps |-> {}, defaultable |-> <<>>, reps |-> {}]

\* lines 45-46 and 61-62: w is L.subterms(v, seen), exhausted
tc_walked(w, c) == [c EXCEPT !.t = tc_terms(w.out, 1, @), !.seen = w.seen]
tc_walk(v, c) == tc_walked(subterms(v, c.seen), c)

\* line 49
tc_note_src(c) == [c EXCEPT !.src_reps = sets_reps(c.t)]

\* lines 51-59
tc_walked_pre(w, c) ==
  [c EXCEPT !.t = tc_terms(w.out, 1, @), !.seen = w.seen,
            !.defaultable = tc_defaultable(w.out, 1, <<>>)]
tc_walk_pre(p, c) == IF p # 0 THEN tc_walked_pre(subterms(p, c.seen), c) ELSE c

\* line 64
tc_unify_roots(s, g, c) == [c EXCEPT !.t = tc_eq_types(@, <<s, g>>, 1)]

\* lines 41-64: the three walks sharing one seen set, then the unification
\* of the roots
tc_collect(s, g, p) ==
  tc_unify_roots(s, g, tc_walk(g, tc_walk_pre(p, tc_note_src(tc_walk(s, tc_start)))))

\* lines 68-71: the representatives not fixed by the source
tc_new_reps(c) ==
  [c EXCEPT !.reps = {r \in sets_reps(c.t) : r \notin c.t.specifics /\ r \notin c.t.bools}
                       \ {sets_rep(c.t, r) : r \in c.src_reps}]

\* lines 73-79
tc_defaulting(c) == IF c.reps # {} THEN tc_default_loop(c.defaultable, 1, c) ELSE c

\* lines 83-88: with reps not empty the argument of typing.Error is built
\* first, and ', '.join(...) over what fmt.operand returns (a Formatted,
\* line 330, or the Doc of pretty.text, line 328; neither is a string)
\* raises TypeError: no typing.Error is constructed, no message names a
\* representative
tc_result(c) ==
  [raised |-> c.reps # {},
   exc |-> IF c.reps # {} THEN "TypeError" ELSE "none",
   named |-> {},
   reps |-> c.reps,
   t |-> c.t]

\* as type_constraints, but the walk of tgt also notes the immediate
\* arguments of the Comparisons and FunPreds it meets
type_constraints_default_tgt(s, g, p) ==
  LET c == tc_walk_pre(p, tc_note_src(tc_walk(s, tc_start)))
      w == subterms(g, c.seen)
  IN tc_result(tc_defaulting(tc_new_reps(tc_unify_roots(s, g,
       [c EXCEPT !.t = tc_terms(w.out, 1, @), !.seen = w.seen,
                 !.defaultable = tc_defaultable(w.out, 1, @)]))))

type_constraints(s, g, p) == tc_result(tc_defaulting(tc_new_reps(tc_collect(s, g, p))))

(***************************************************************************)
(* alive.typing: the type model of a collector and the Validator of a      *)
(* type vector.  A type model object is [id, tc], id being its identity.   *)
(* The Validator gives each term the type the vector holds for the         *)
(* representative of its class and raises typing.Error at the first        *)
(* constraint the types do not meet.                                       *)
(***************************************************************************)
Types == {"i1", "i8"}

get_type_model(t, id) == [id |-> id, tc |-> t]

V_type(m, vec, x) == vec[sets_rep(m.tc, x)]

V_eq_types(m, vec, xs) ==
  \A i \in 1..Len(xs) : V_type(m, vec, xs[i]) = V_type(m, vec, xs[1])

\* term.type_constraints(V) with V a Validator: TRUE unless it raises
term_validate(m, vec, v) ==
  LET k == terms[v].kind
      a == args(v)
  IN CASE k = "BinaryOperator" -> V_eq_types(m, vec, <<v, a[1], a[2]>>)
       [] k = "ConversionInst" ->
            terms[v].ty # "" => V_type(m, vec, v) = terms[v].ty
       [] k = "Comparison" ->
            V_type(m, vec, v) = "i1" /\ V_eq_types(m, vec, <<a[1], a[2]>>)
       [] k = "FunPred" -> V_type(m, vec, v) = "i1"
       [] OTHER -> TRUE

(***************************************************************************)
(* Transform.subterms(), transform.py 27-36: src, then tgt, then pre,      *)
(* chained over one seen set.                                              *)
(***************************************************************************)
subterms_opt(p, st) == IF p = 0 THEN st ELSE subterms_walk(p, st)

\* as Transform_subterms, but each of the three walks has a seen set of its own
Transform_subterms_own_seen(s, g, p) ==
  subterms(s, {}).out \o subterms(g, {}).out \o subterms_opt(p, [out |-> <<>>, seen |-> {}]).out

Transform_subterms(s, g, p) ==
  subterms_opt(p, subterms_walk(g, subterms_walk(s, [out |-> <<>>, seen |-> {}]))).out

(***************************************************************************)
(* Transform.abstract_type_model(), transform.py 90-94, on                 *)
(* self = [src, tgt, pre, model, runs].  Returns the Transform after the   *)
(* call, whether the call raised, and the model returned.                  *)
(***************************************************************************)
\* line 92 left out: the model is returned but not stored
atm_no_assign(r, self) ==
  IF r.raised THEN [self |-> self, raised |-> TRUE, value |-> NoModel]
  ELSE [self |-> self, raised |-> FALSE, value |-> get_type_model(r.t, self.runs)]

\* line 92 with r the outcome of type_constraints(): self._model = ...
atm_assign(r, self) ==
  IF r.raised THEN [self |-> self, raised |-> TRUE, value |-> NoModel]
  ELSE [self |-> [self EXCEPT !.model = get_type_model(r.t, self.runs)],
        raised |-> FALSE,
        value |-> get_type_model(r.t, self.runs)]

abstract_type_model(self) ==
  IF self.model # NoModel THEN [self |-> self, raised |-> FALSE, value |-> self.model]
  ELSE atm_assign(type_constraints(self.src, self.tgt, self.pre),
                  [self EXCEPT !.runs = @ + 1])

\* Transform.type_models(), transform.py 96-97
type_models(self) == abstract_type_model(self)

vm_all(m, vec, ts) == \A i \in 1..Len(ts) : term_validate(m, vec, ts[i])

\* lines 107-117 with a the outcome of line 103: "True" unless a
\* constraint raises typing.Error, which gives "False"
vm_try(a, vec) ==
  IF /\ V_eq_types(a.value, vec, <<a.self.src, a.self.tgt>>)
     /\ vm_all(a.value, vec, Transform_subterms(a.self.src, a.self.tgt, a.self.pre))
  THEN "True" ELSE "False"

vm_outcome(a, vec) ==
  [self |-> a.self, value |-> a.value,
   outcome |-> IF a.raised THEN "raise" ELSE vm_try(a, vec)]

\* Transform.validate_model(type_vector), transform.py 99-117; the outcome
\* is "True", "False" or "raise"
validate_model(self, vec) == vm_outcome(abstract_type_model(self), vec)

(***************************************************************************)
(* Specifications of the Transform: the arena is built, the Transform is   *)
(* constructed over it, and then its methods are called.                   *)
(***************************************************************************)
TyKinds == {"Input", "BinaryOperator", "ConversionInst", "Comparison", "FunPred"}

Predicates == {v \in Terms : IsPredicate(terms[v].kind)}

\* The operands of a term are any earlier terms, values or predicates; a
\* conversion may carry a type.
TyNodeOptions ==
  NodeOptions(terms, TyKinds)
    \cup {[n EXCEPT !.ty = "i8"] : n \in NodeOptions(terms, {"ConversionInst"})}

Self == [src |-> self_src, tgt |-> self_tgt, pre |-> self_pre, model |-> _model,
         runs |-> tc_runs]

\* The type vectors the callers pass: a type per representative.
TypeVectors ==
  {[x \in Terms |-> ty] : ty \in Types}
    \cup {[x \in Terms |-> IF IsPredicate(terms[x].kind) THEN "i1" ELSE "i8"]}

NewTyTerm(max) ==
  /\ self_src = 0
  /\ Len(terms) < max
  /\ \E n \in TyNodeOptions : terms' = Append(terms, n)
  /\ UNCHANGED <<tyVars, notTy>>

NewModelTerm == NewTyTerm(MaxModelTerms)

\* Transform(src, tgt, pre): every term of the arena belongs to the Transform
NewTransform(s, g, p) ==
  /\ self_src = 0
  /\ Reach(s) \cup Reach(g) \cup (IF p = 0 THEN {} ELSE Reach(p)) = Terms
  /\ self_src' = s
  /\ self_tgt' = g
  /\ self_pre' = p
  /\ UNCHANGED <<terms, _model, tc_runs, calls, ret, used, notTy>>

\* a direct call of type_constraints()
TypeConstraints ==
  /\ self_src # 0
  /\ calls = 0
  /\ calls' = 1
  /\ tc_runs' = tc_runs + 1
  /\ ret' = [op |-> "type_constraints"] @@ type_constraints(self_src, self_tgt, self_pre)
  /\ UNCHANGED <<terms, self_src, self_tgt, self_pre, _model, used, notTy>>

\* The Transform after a call whose result is a, and the record of the call.
Called(o, a, outcome) ==
  /\ self_src # 0
  /\ calls < MaxCalls
  /\ calls' = calls + 1
  /\ _model' = a.self.model
  /\ tc_runs' = a.self.runs
  /\ ret' = [op |-> o, outcome |-> outcome]
  /\ used' = IF outcome = "raise" THEN used ELSE used \cup {a.value.id}
  /\ UNCHANGED <<terms, self_src, self_tgt, self_pre, notTy>>

Returned(o, a) == Called(o, a, IF a.raised THEN "raise" ELSE "return")
Validated(a) == Called("validate_model", a, a.outcome)

AbstractTypeModel == Returned("abstract_type_model", abstract_type_model(Self))

TypeModels == Returned("type_models", type_models(Self))

ValidateModel(vec) == Validated(validate_model(Self, vec))

\* list(self.subterms())
Subterms ==
  /\ self_src # 0
  /\ calls < MaxCalls
  /\ calls' = calls + 1
  /\ ret' = [op |-> "subterms", out |-> Transform_subterms(self_src, self_tgt, self_pre)]
  /\ UNCHANGED <<terms, self_src, self_tgt, self_pre, _model, tc_runs, used, notTy>>

NextSub ==
  \/ NewModelTerm
  \/ \E s \in Terms : \E g \in Terms : \E p \in {0} \cup Predicates :
       NewTransform(s, g, p)
  \/ Subterms
SpecSub == InitDag /\ [][NextSub]_vars

NextTc ==
  \/ NewTyTerm(MaxTyTerms)
  \/ \E s \in Terms : \E g \in Terms : \E p \in {0} \cup Predicates :
       NewTransform(s, g, p)
  \/ TypeConstraints
SpecTc == InitDag /\ [][NextTc]_vars

NextTy ==
  \/ NewModelTerm
  \/ \E s \in Terms : \E g \in Terms : \E p \in {0} \cup Predicates :
       NewTransform(s, g, p)
  \/ AbstractTypeModel
  \/ TypeModels
  \/ \E vec \in TypeVectors : ValidateModel(vec)
SpecTy == InitDag /\ [][NextTy]_vars

(***************************************************************************)
(* Properties of the Transform.                                            *)
(***************************************************************************)
\* C1: validate_model returns a boolean and never lets a typing error
\* escape, whether or not the type model is cached and whether or not
\* type_constraints() would raise Ambiguous Type.
C1_ValidateReturnsBool ==
  ret.op = "validate_model" => ret.outcome \in {"True", "False"}

\* The classes of the collector after the walks and the unification, and
\* what the claim says of them.
TcClass(t, r) == {x \in DOMAIN t.rep : t.rep[x] = r}
SrcTerms == Reach(self_src)
PreOperands ==
  IF self_pre = 0 THEN {}
  ELSE UNION {{args(v)[i] : i \in 1..Len(args(v))} :
                v \in {w \in Reach(self_pre) : IsPredicate(terms[w].kind)}}
FreeClasses(t) ==
  {r \in sets_reps(t) : /\ r \notin t.specifics
                        /\ r \notin t.bools
                        /\ TcClass(t, r) \cap SrcTerms = {}}
Defaulted(t) == {t.defaulted[i] : i \in 1..Len(t.defaulted)}

\* C2: type_constraints() raises Ambiguous Type iff a class remains that is
\* not specific, not boolean, holds no representative reached from src and
\* holds no immediate operand of a Comparison or FunPred of the
\* precondition; a free class holding such an operand is defaulted and
\* does not cause the error; the error names exactly the representatives
\* of the classes that remain.
C2_AmbiguousIffUnboundedClass ==
  ret.op = "type_constraints" =>
    LET remain == {r \in FreeClasses(ret.t) : TcClass(ret.t, r) \cap PreOperands = {}}
    IN /\ ret.raised <=> remain # {}
       /\ ret.raised => ret.exc = "typing.Error"
       /\ ret.named = remain
       /\ \A r \in FreeClasses(ret.t) \ remain :
            ret.raised => r \in Defaulted(ret.t) /\ r \notin ret.named
       /\ ~ret.raised => Defaulted(ret.t) = FreeClasses(ret.t)

PreTerms == IF self_pre = 0 THEN {} ELSE Reach(self_pre)
\* 1 for the terms of src, 2 for the other terms of tgt, 3 for the rest
Stage(x) == IF x \in Reach(self_src) THEN 1 ELSE IF x \in Reach(self_tgt) THEN 2 ELSE 3

\* C16: subterms() generates every term reachable from src, tgt or pre
\* exactly once, whatever the three graphs share: the terms of src, then
\* the terms of tgt not generated yet, then those of pre not generated yet;
\* a second call generates the full set again.
C16_SubtermsOnceInOrder ==
  ret.op = "subterms" =>
    /\ {ret.out[i] : i \in 1..Len(ret.out)} = Reach(self_src) \cup Reach(self_tgt) \cup PreTerms
    /\ \A i, j \in 1..Len(ret.out) : i < j =>
         /\ ret.out[i] # ret.out[j]
         /\ Stage(ret.out[i]) <= Stage(ret.out[j])

\* the second call on a Transform whose three graphs share a term
C16_Witness ==
  /\ ret.op = "subterms"
  /\ calls = 2
  /\ self_pre # 0
  /\ self_src # self_tgt
  /\ Reach(self_src) \cap Reach(self_tgt) \cap PreTerms # {}
  /\ Len(ret.out) = 3

\* The immediate operands of the Comparisons and FunPreds of the target.
TgtOperands ==
  UNION {{args(v)[i] : i \in 1..Len(args(v))} :
           v \in {w \in Reach(self_tgt) : IsPredicate(terms[w].kind)}}

C10_RunAtMostOnce ==
  /\ calls = 0 => tc_runs = 0
  /\ tc_runs <= 1
  /\ Cardinality(used) <= 1

\* C10: type_constraints() is not run before the first call; once a run
\* has returned, its model is cached, type_constraints() is never run
\* again and every call uses that one model object; while no run has
\* returned, every call runs type_constraints() again and raises.
C10_RunOnceItReturns ==
  /\ [](calls = 0 => tc_runs = 0)
  /\ [](Cardinality(used) <= 1)
  /\ [](_model # NoModel => used = {_model.id})
  /\ [](_model = NoModel => used = {} /\ tc_runs = calls)
  /\ [][_model # NoModel => _model' = _model /\ tc_runs' = tc_runs]_vars

\* two calls on a Transform whose first call cached the model
C10_Witness ==
  /\ calls = 2
  /\ tc_runs = 1
  /\ _model # NoModel
  /\ ret.op = "validate_model"

(***************************************************************************)
(* format_parts and old_format_parts, transform.py 173-258, and the        *)
(* documents the printers build for them.  A document is the flat list of  *)
(* its items: a text; a suspended Formatted(term, fmt, prec), formatted    *)
(* when the document is sent (Formatted.send_to, lines 277-278); or an     *)
(* element of a generator handed to pretty that is not consumed yet.       *)
(***************************************************************************)
Text(s) == [part |-> "", term |-> 0, prec |-> 0, s |-> s]
Suspended(v, p) == [part |-> "", term |-> v, prec |-> p, s |-> ""]
\* the text a line of the output starts with: the name of a header, or the
\* id of a declaration ("" when the declaration is printed without one)
Mark(part, id) == [part |-> part, term |-> 0, prec |-> 0, s |-> id]
\* an element of a generator expression over ts, not consumed yet
Deferred(part, ts) == [i \in 1..Len(ts) |-> [part |-> part, term |-> ts[i], prec |-> 0, s |-> ""]]

\* pretty.text(fmt.name(term)), f1 = name(f, term)
text_name(f1) == [f |-> f1, doc |-> <<Text(f1.ret)>>]

\* Formatter.operand(term, prec) with ty None, lines 323-335: [f, doc]
operand(f, v, p) ==
  IF v \in DOMAIN f.ids \/ IsInstruction(terms[v].kind)
  THEN text_name(name(f, v))
  ELSE [f |-> f, doc |-> <<Suspended(v, p)>>]

\* pretty.seq(head items, a document r = [f, doc])
seq_operand(head, r) == [f |-> r.f, doc |-> head \o r.doc]

\* format_doc(term, fmt, prec) for an Input (356-358), a Literal (422-425;
\* its val is its index in the arena), a UnaryCnxp (482-484) and a
\* ConversionInst with no types (373-384): [f, doc]
format_doc_term(f, v, p) ==
  CASE terms[v].kind = "Input" -> text_name(name(f, v))
    [] terms[v].kind = "Literal" -> [f |-> f, doc |-> <<Text(str(v))>>]
    [] terms[v].kind = "UnaryCnxp" ->
         seq_operand(<<Text("-")>>, operand(f, args(v)[1], 10))
    [] terms[v].kind = "ConversionInst" ->
         seq_operand(<<Text("zext"), Text(" ")>>, operand(name(f, v), args(v)[1], 0))

\* A declaration: id = format_doc(v, fmt, 0), f1 being the Formatter after
\* the fmt.name(..) that gave the id (lines 182-184, 193-196 with fmt_decl
\* of lines 202-203; format_cdef of lines 230-233)
fp_decl(part, f1, v) == seq_operand(<<Mark(part, f1.ret)>>, format_doc_term(f1, v, 0))

\* What an item that is not a text becomes when it is reached: a suspended
\* Formatted is formatted (lines 277-278); a header (lines 186-188,
\* 237-239), a source instruction of old_format_parts (line 228), one of
\* its constant definitions (lines 235-236) or target instructions (lines
\* 246-247, with the test i not in fmt.ids) is built.
format_item(f, x) ==
  CASE x.part = "" -> format_doc_term(f, x.term, x.prec)
    [] x.part = "head" ->
         seq_operand(<<Mark("head", "Pre:")>>, format_doc_term(f, x.term, 0))
    [] x.part = "src" ->
         seq_operand(<<Mark("src", "")>>, format_doc_term(f, x.term, 0))
    [] x.part = "def" -> fp_decl("def", name(f, x.term), x.term)
    [] x.part = "tgt" ->
         IF x.term \in DOMAIN f.ids THEN [f |-> f, doc |-> <<>>]
         ELSE seq_operand(<<Mark("tgt", "")>>, format_doc_term(f, x.term, 0))

\* st = [f, doc] with the document r = [f, doc] appended
fp_add(st, r) == [f |-> r.f, doc |-> st.doc \o r.doc]

\* pretty.iter_seq(generator): the generator is consumed either at once or
\* when the document is sent
RECURSIVE iter_now(_, _, _)
iter_now(st, xs, i) ==
  IF i > Len(xs) THEN st
  ELSE iter_now(fp_add(st, format_item(st.f, xs[i])), xs, i + 1)
iter_seq(f, xs, lazy) ==
  IF lazy THEN [f |-> f, doc |-> xs] ELSE iter_now([f |-> f, doc |-> <<>>], xs, 1)

\* the list comprehensions of lines 182-184
RECURSIVE fp_decls(_, _, _, _)
fp_decls(st, part, ts, i) ==
  IF i > Len(ts) THEN st
  ELSE fp_decls(fp_add(st, fp_decl(part, name(st.f, ts[i]), ts[i])), part, ts, i + 1)

\* fmt.ids[g] = nm
fp_store(f, g, nm) ==
  [f EXCEPT !.ids = [x \in DOMAIN f.ids \cup {g} |-> IF x = g THEN nm ELSE f.ids[x]]]

\* lines 190-191
fp_alias(f, s, g) ==
  IF IsInstruction(terms[g].kind) THEN fp_store(name(f, s), g, name(f, s).ret) ELSE f

\* tgti, lines 193-194: the test i not in fmt.ids is made as the list is built
RECURSIVE fp_tgti(_, _, _)
fp_tgti(st, ts, i) ==
  IF i > Len(ts) THEN st
  ELSE fp_tgti(IF ts[i] \in DOMAIN st.f.ids THEN st
               ELSE fp_add(st, fp_decl("tgt", name(st.f, ts[i]), ts[i])), ts, i + 1)

\* line 196: tgti.append((fmt.name(src), format_doc(tgt, fmt, 0)))
fp_root(st, s, g) == fp_add(st, fp_decl("tgt", name(st.f, s), g))

\* old_format_parts, lines 249-254: the root of the target, f being the
\* Formatter after the assignment of line 244
old_root(f, s, g) ==
  IF ~IsInstruction(terms[g].kind)
  THEN fp_decl("tgt", name(fp_store(f, g, terms[s].name), g), g)
  ELSE seq_operand(<<Mark("tgt", "")>>, format_doc_term(f, g, 0))

\* old_format_parts, lines 228-258, a, b, c and d being src_doc, cdefs,
\* head_doc and tgt_doc: the Formatter and the document returned
old_tgt(s, g, a, b, c, d) ==
  fp_add([f |-> d.f, doc |-> c.doc \o a.doc \o b.doc \o d.doc], old_root(d.f, s, g))
old_alias(s, g, lazy, a, b, c) ==
  old_tgt(s, g, a, b, c,
          iter_seq(fp_store(c.f, g, terms[s].name), Deferred("tgt", get_insts(g)), lazy))
old_heads(hs, s, g, lazy, a, b) ==
  old_alias(s, g, lazy, a, b, iter_seq(b.f, Deferred("head", hs), lazy))
old_cdefs(hs, s, g, lazy, a) ==
  old_heads(hs, s, g, lazy, a,
            iter_seq(a.f, Deferred("def", constant_defs(g, hs).defs), lazy))
\* line 228: pretty.line.join(generator) consumes the generator at once or
\* when the document is sent, as pretty.iter_seq does
old_format_parts(f, hs, s, g, lazy, lazy_join) ==
  old_cdefs(hs, s, g, lazy, iter_seq(f, Deferred("src", get_insts(s)), lazy_join))

\* a text reaches the consumer: it starts a line of the output or is added
\* to the last line; a line is [part, id, toks]
send_text(text, x) ==
  IF x.part # "" \/ text = <<>>
  THEN Append(text, [part |-> x.part, id |-> x.s, toks |-> <<>>])
  ELSE [text EXCEPT ![Len(text)].toks = Append(@, x.s)]

Fmt == [ids |-> ids, names |-> names, fresh |-> fresh, ret |-> ""]

SetFmt(f) ==
  /\ ids' = f.ids
  /\ names' = f.names
  /\ fresh' = f.fresh

PartsKinds == {"Input", "Literal", "UnaryCnxp", "ConversionInst"}

InitParts ==
  /\ terms = <<>>
  /\ DagIdle
  /\ FmtIdle
  /\ PrIdle
  /\ RenIdle
  /\ TyIdle
  /\ PartsIdle

NewPartsTerm ==
  /\ fp.pc = "none"
  /\ NewTerm(PartsKinds, MaxPartsTerms)
  /\ UNCHANGED <<fmtVars, fp, dagVars, prVars, renVars, tyVars>>

\* The session after lines 180-188, a, b and c being srci, cdefs and heads
fp_lists(hs, s, g, a, b, c) ==
  /\ SetFmt(c.f)
  /\ fp' = [pc |-> "named", fn |-> "format_parts", headers |-> hs, src |-> s, tgt |-> g,
            srci |-> a.doc, cdefs |-> b.doc, heads |-> c.doc, doc |-> <<>>, text |-> <<>>]
fp_lists_heads(hs, s, g, lazy, a, b) ==
  fp_lists(hs, s, g, a, b, iter_seq(b.f, Deferred("head", hs), lazy))
fp_lists_cdefs(hs, s, g, lazy, a) ==
  fp_lists_heads(hs, s, g, lazy, a,
    fp_decls([f |-> a.f, doc |-> <<>>], "def", constant_defs(g, hs).defs, 1))

\* format_parts(name, headers, src, tgt) is called with a new Formatter,
\* every term of the arena belonging to the call; lines 180-188
FormatParts(hs, s, g, lazy) ==
  /\ fp.pc = "none"
  /\ IsInstruction(terms[s].kind)
  /\ Reach(s) \cup Reach(g) \cup ReachAll(hs) = Terms
  /\ lazy => hs # <<>>
  /\ fp_lists_cdefs(hs, s, g, lazy,
                    fp_decls([f |-> Fmt, doc |-> <<>>], "src", get_insts(s), 1))
  /\ UNCHANGED <<terms, notParts>>

\* lines 190-191
Alias ==
  /\ fp.pc = "named"
  /\ SetFmt(fp_alias(Fmt, fp.src, fp.tgt))
  /\ fp' = [fp EXCEPT !.pc = "aliased"]
  /\ UNCHANGED <<terms, notParts>>

\* The document is returned, to be sent; the lists are locals of the call.
fp_built(r) ==
  /\ SetFmt(r.f)
  /\ fp' = [fp EXCEPT !.pc = "built",
                      !.doc = fp.heads \o fp.srci \o fp.cdefs \o r.doc,
                      !.srci = <<>>, !.cdefs = <<>>, !.heads = <<>>]

\* lines 193-217: the declarations of the target, and the document returned:
\* the headers, the declarations of the source, '=>', the constant
\* definitions and the declarations of the target
Declare ==
  /\ fp.pc = "aliased"
  /\ fp_built(fp_root(fp_tgti([f |-> Fmt, doc |-> <<>>], get_insts(fp.tgt), 1),
                      fp.src, fp.tgt))
  /\ UNCHANGED <<terms, notParts>>

\* old_format_parts(name, headers, src, tgt) is called with a new Formatter
\* and returns its document
old_called(hs, s, g, r) ==
  /\ SetFmt(r.f)
  /\ fp' = [pc |-> "built", fn |-> "old_format_parts", headers |-> hs, src |-> s,
            tgt |-> g, srci |-> <<>>, cdefs |-> <<>>, heads |-> <<>>, doc |-> r.doc,
            text |-> <<>>]
OldFormatParts(hs, s, g, lazy, lazy_join) ==
  /\ fp.pc = "none"
  /\ IsInstruction(terms[s].kind)
  /\ Reach(s) \cup Reach(g) \cup ReachAll(hs) = Terms
  /\ old_called(hs, s, g, old_format_parts(Fmt, hs, s, g, lazy, lazy_join))
  /\ UNCHANGED <<terms, notParts>>

\* doc.send_to reaches an item that is not a text yet
fp_formatted(r) ==
  /\ SetFmt(r.f)
  /\ fp' = [fp EXCEPT !.pc = IF r.doc \o Tail(fp.doc) = <<>> THEN "sent" ELSE "sending",
                      !.doc = r.doc \o Tail(fp.doc)]
Format ==
  /\ fp.pc \in {"built", "sending"}
  /\ fp.doc # <<>>
  /\ fp.doc[1].term # 0
  /\ fp_formatted(format_item(Fmt, fp.doc[1]))
  /\ UNCHANGED <<terms, notParts>>

\* doc.send_to sends a text to the consumer
Emit ==
  /\ fp.pc \in {"built", "sending"}
  /\ fp.doc # <<>>
  /\ fp.doc[1].term = 0
  /\ fp' = [fp EXCEPT !.pc = IF Tail(fp.doc) = <<>> THEN "sent" ELSE "sending",
                      !.doc = Tail(fp.doc),
                      !.text = send_text(fp.text, fp.doc[1])]
  /\ UNCHANGED <<terms, fmtVars, dagVars, prVars, renVars, tyVars>>

\* the consumer raises on the text sent to it: send_to is left
SinkRaises ==
  /\ fp.pc \in {"built", "sending"}
  /\ fp.doc # <<>>
  /\ fp.doc[1].term = 0
  /\ fp' = [fp EXCEPT !.pc = "raised"]
  /\ UNCHANGED <<terms, fmtVars, dagVars, prVars, renVars, tyVars>>

HeaderLists == {<<>>} \cup {<<t>> : t \in Terms}

NextParts ==
  \/ NewPartsTerm
  \/ /\ fp.pc = "none"
     /\ \E hs \in HeaderLists : \E s, g \in Terms : \E lazy \in BOOLEAN :
          FormatParts(hs, s, g, lazy)
  \/ Alias
  \/ Declare
  \/ Format
  \/ Emit
  \/ SinkRaises
SpecParts == InitParts /\ [][NextParts]_vars

NextOldParts ==
  \/ NewPartsTerm
  \/ /\ fp.pc = "none"
     /\ \E hs \in HeaderLists : \E s, g \in Terms : \E lazy, lazy_join \in BOOLEAN :
          OldFormatParts(hs, s, g, lazy, lazy_join)
  \/ Format
  \/ Emit
  \/ SinkRaises
SpecOldParts == InitParts /\ [][NextOldParts]_vars

\* The Formatter g is the Formatter f after some calls of name().
SameFmt(f, g) == f.ids = g.ids /\ f.names = g.names /\ f.fresh = g.fresh
RECURSIVE ByName(_, _)
ByName(f, g) ==
  \/ SameFmt(f, g)
  \/ \E t \in DOMAIN g.ids \ DOMAIN f.ids : ByName(name(f, t), g)

\* C11 as stated: during a print session the Formatter's term-to-name map,
\* its used-name set and its counter are changed only by Formatter.name(),
\* every other operation leaves all three unchanged, and the counter is
\* never decreased or reset.
C11_OnlyName ==
  [][fp'.pc # "none" => ByName(Fmt, Fmt') /\ fresh' >= fresh]_vars

\* The terms constant_defs generates for the session, in order.
Hoisted == constant_defs(fp.tgt, fp.headers).defs

\* C13: the constant definitions respect dependencies: a term is generated
\* before any generated term that references it, and in the text built by
\* format_parts no hoisted constant is referenced by its name in a
\* declaration that comes before the constant's own definition.
C13_DefinedBeforeUse ==
  fp.pc = "sent" =>
    /\ \A i, j \in 1..Len(Hoisted) : i < j => Hoisted[j] \notin Reach(Hoisted[i])
    /\ \A c \in 1..Len(Hoisted) : \A j \in 1..Len(fp.text) :
         (/\ fp.text[j].part # "head"
          /\ \E k \in 1..Len(fp.text[j].toks) : fp.text[j].toks[k] = ids[Hoisted[c]])
         => \E d \in 1..(j - 1) : /\ fp.text[d].part = "def"
                                  /\ fp.text[d].id = ids[Hoisted[c]]

====
